---------------------------- MODULE Spec2Model ----------------------------
(***************************************************************************)
(* Model of the order dependency graph and its resolution loop             *)
(* (game_pieces/src/order.rs): create_order_dependency_graph builds a      *)
(* directed graph over the turn's orders, resolve_all_non_dependant_edges  *)
(* walks it.                                                               *)
(*                                                                         *)
(* State: the caller's orders, the petgraph graph (node set plus the edge  *)
(* list in insertion order), the NodeList, and the position of the         *)
(* resolution loop (pc, the for-loop index, any_resolved).                 *)
(*                                                                         *)
(* Inputs.  ProvinceID is u8; the model draws provinces from               *)
(* 1..NumProvinces.  An input list holds at most one order per province    *)
(* and the orders have the shapes the field comments of struct Order       *)
(* describe (order_from differs from order_of only for Support and         *)
(* Convoy).  The code compares ProvinceIDs for equality only, never for    *)
(* order, so every input list is a renaming of a list whose locations      *)
(* ascend; Init draws those, and the permutations of a list are covered    *)
(* by the operator Engine (see Permuted).                                  *)
(***************************************************************************)
EXTENDS Integers, Sequences, FiniteSets, TLC

\* Bounds of the model.
NumProvinces == 3
MaxOrders == 3
\* Calls of increase_strength a caller makes once resolution has returned.
MaxCalls == 1

\* The largest u8, the type of order_strength and of ProvinceID.
U8Max == 255

\* With u8 province identifiers an order has at most 255 other orders, and
\* so at most 255 supports.
MaxSupports == 255

Provinces == 1..NumProvinces

\* enum OrderType
OrderType ==
  {"Hold", "Move", "Support", "Convoy",
   "IllegalOrder", "RequiredOrderNotGiven", "SupportCut"}

\* struct Order, as a record; a fresh order has strength 1 and is neither
\* resolved nor dislodged.
Order(type, of, from, to) ==
  [original_order_type |-> type, order_type |-> type,
   order_of |-> of, order_from |-> from, order_to |-> to,
   order_strength |-> 1, resolved |-> FALSE, dislodged |-> FALSE]

\* The a-th province other than l.
Other(l, a) == IF a < l THEN a ELSE a + 1

\* The orders a unit can be given, written relative to where it stands:
\* <<type, a, b>> names the a-th and the b-th other province (0: unused).
Shapes ==
  {<<"Hold", 0, 0>>}
  \cup {<<"Move", 0, b>> : b \in 1..(NumProvinces - 1)}
  \cup {<<"IllegalOrder", 0, b>> : b \in 1..(NumProvinces - 1)}
  \cup {<<"Support", a, b>> : a \in 1..(NumProvinces - 1), b \in 1..(NumProvinces - 1)}
  \cup {<<"Convoy", x[1], x[2]>> :
          x \in {y \in (1..(NumProvinces - 1)) \X (1..(NumProvinces - 1)) : y[1] # y[2]}}

\* The order of shape s for the unit at province l: a Hold names its own
\* province twice, a Move (legal or not) leaves from it for another one, a
\* Support or a Convoy names two provinces other than its own (the same one
\* twice for a Support to hold, never for a Convoy).
OrderAt(l, s) ==
  Order(s[1], l, IF s[2] = 0 THEN l ELSE Other(l, s[2]),
                 IF s[3] = 0 THEN l ELSE Other(l, s[3]))

Min(S) == CHOOSE x \in S : \A y \in S : x <= y

RECURSIVE Ascending(_)
Ascending(S) ==
  IF S = {} THEN <<>> ELSE <<Min(S)>> \o Ascending(S \ {Min(S)})

\* The sets of provinces that hold a unit: at most MaxOrders of them.
OccupiedSets == {T \in SUBSET Provinces : Cardinality(T) <= MaxOrders}

\* The input list for the occupied provinces S and the shapes f gives them.
InputList(S, f) ==
  LET locs == Ascending(S)
  IN  [i \in 1..Len(locs) |-> OrderAt(locs[i], f[locs[i]])]

---------------------------------------------------------------------------
\* impl Order

is_moving_into(self, destination) ==
  self.order_type = "Move" /\ self.order_to = destination

is_support_holding(self, supporting) ==
  /\ self.order_type = "Support"
  /\ self.order_from = supporting
  /\ self.order_to = supporting

is_support_moving(self, from, to) ==
  /\ self.order_type = "Support"
  /\ self.order_from = from
  /\ self.order_to = to

is_convoying(self, from, to) ==
  /\ self.order_type = "Convoy"
  /\ self.order_from = from
  /\ self.order_to = to

\* order_strength is u8: += 1 wraps in a release build (and panics in a
\* debug build) at 255.
increase_strength(self) ==
  [self EXCEPT !.order_strength = (@ + 1) % (U8Max + 1)]

---------------------------------------------------------------------------
\* create_order_dependency_graph

\* A faulty variant of HoldDependsOn: rule (1), the support to hold, is lost.
HoldDependsOnMovesOnly(current_order, check_order) ==
  is_moving_into(check_order, current_order.order_of)

\* The arm for Hold | Convoy | Support | RequiredOrderNotGiven | SupportCut.
HoldDependsOn(current_order, check_order) ==
  \/ is_support_holding(check_order, current_order.order_of)
  \/ is_moving_into(check_order, current_order.order_of)

\* A faulty variant of IllegalDependsOn: the illegal order shares the arm of
\* the holding orders.
IllegalDependsOnAsHold(current_order, check_order) ==
  \/ is_support_holding(check_order, current_order.order_of)
  \/ is_moving_into(check_order, current_order.order_of)

\* The arm for IllegalOrder.
IllegalDependsOn(current_order, check_order) ==
  is_moving_into(check_order, current_order.order_of)

\* A faulty variant of MoveDependsOn: a Move waits only for the order of the
\* unit in the province it moves into.
MoveDependsOnOccupantOnly(current_order, check_order) ==
  check_order.order_of = current_order.order_to

\* A faulty variant of MoveDependsOn: the test of the order of the unit in the
\* province moved into is left out.
MoveDependsOnNoOccupant(current_order, check_order) ==
  \/ is_support_moving(check_order, current_order.order_from, current_order.order_to)
  \/ check_order.order_to = current_order.order_to
  \/ /\ check_order.order_to = current_order.order_from
     /\ check_order.order_from = current_order.order_to
  \/ is_convoying(check_order, current_order.order_from, current_order.order_to)

\* The arm for Move.
MoveDependsOn(current_order, check_order) ==
  \/ is_support_moving(check_order, current_order.order_from, current_order.order_to)
  \/ check_order.order_of = current_order.order_to
  \/ check_order.order_to = current_order.order_to
  \/ /\ check_order.order_to = current_order.order_from
     /\ check_order.order_from = current_order.order_to
  \/ is_convoying(check_order, current_order.order_from, current_order.order_to)

\* match current_order.order_type { ... }: whether add_edge() is called.
DependsOn(current_order, check_order) ==
  CASE current_order.order_type = "IllegalOrder" ->
         IllegalDependsOn(current_order, check_order)
    [] current_order.order_type = "Move" ->
         MoveDependsOn(current_order, check_order)
    [] OTHER ->
         HoldDependsOn(current_order, check_order)

\* The pairs (current, check) in the order the two nested loops visit them,
\* for a list of n orders.
NodePairs ==
  [n \in 0..MaxOrders |->
     [k \in 1..(n * n) |-> <<((k - 1) \div n) + 1, ((k - 1) % n) + 1>>]]

\* A faulty variant of NodeListOf: add_node is called once, and every order
\* is listed with that one node index.
NodeListOfOneNode(ords) == [i \in 1..Len(ords) |-> <<i, 1>>]

\* nodes.push((order, ret_graph.add_node(order))): the i-th order gets the
\* i-th node index (petgraph counts from 0, the model from 1).
NodeListOf(ords) == [i \in 1..Len(ords) |-> <<i, i>>]

\* A faulty variant of GraphOf: the Move arm tests the occupant of the target
\* province and the move in the opposite direction in an if of their own
\* after the others, and adds a second edge when both hold.
GraphOfEdgePerRule(ords) ==
  [nodes |-> 1..Len(ords),
   edges |-> SelectSeq(NodePairs[Len(ords)],
                       LAMBDA p : DependsOn(ords[p[1]], ords[p[2]]))
             \o SelectSeq(NodePairs[Len(ords)],
                       LAMBDA p : /\ ords[p[1]].order_type = "Move"
                                  /\ ords[p[2]].order_of = ords[p[1]].order_to
                                  /\ ords[p[2]].order_to = ords[p[1]].order_from
                                  /\ ords[p[2]].order_from = ords[p[1]].order_to)]

\* The returned graph: its nodes and its edges, in insertion order.
GraphOf(ords) ==
  [nodes |-> 1..Len(ords),
   edges |-> SelectSeq(NodePairs[Len(ords)],
                       LAMBDA p : DependsOn(ords[p[1]], ords[p[2]]))]

---------------------------------------------------------------------------
\* petgraph queries the resolution loop makes

\* edges_directed(index, Outgoing)
OutgoingEdges(g, index) == SelectSeq(g.edges, LAMBDA e : e[1] = index)

\* edges_directed(index, Incoming)
IncomingEdges(g, index) == SelectSeq(g.edges, LAMBDA e : e[2] = index)

HasEdge(g, a, b) == \E k \in 1..Len(g.edges) : g.edges[k] = <<a, b>>

---------------------------------------------------------------------------
VARIABLES
  orders,                \* the caller's orders, in list order
  order_graph,           \* OrderGraph: [nodes, edges]
  nodes,                 \* NodeList: <<order, index>> pairs
  pc,                    \* "start", "while", "for", "done", "panic"
  any_resolved,          \* the local of resolve_all_non_dependant_edges
  idx,                   \* position of the for loop in nodes
  passes,                \* history: passes of the while loop begun so far
  dependent_node_index,  \* the local of the Support arm (0: not yet set)
  processed,             \* history: nodes that went through the Support arm
  calls                  \* history: calls of increase_strength made so far

vars ==
  <<orders, order_graph, nodes, pc, any_resolved, idx, passes,
    dependent_node_index, processed, calls>>

Init ==
  /\ \E S \in OccupiedSets : \E f \in [S -> Shapes] : orders = InputList(S, f)
  /\ order_graph = [nodes |-> {}, edges |-> <<>>]
  /\ nodes = <<>>
  /\ pc = "start"
  /\ any_resolved = TRUE
  /\ idx = 0
  /\ passes = 0
  /\ dependent_node_index = 0
  /\ processed = {}
  /\ calls = 0

---------------------------------------------------------------------------
\* resolve_all_non_dependant_edges

\* The source of the edge incoming_edges.next() yields.  petgraph's Graph
\* walks a node's edge list from the edge added last.
FirstIncomingSource(g, index) ==
  LET incoming_edges == IncomingEdges(g, index)
  IN  incoming_edges[Len(incoming_edges)][1]

\* What the body of the for loop does with the k-th entry of the NodeList:
\*   "skip"           the node has outgoing edges
\*   "support"        the Support arm runs through
\*   "unwrap_none"    the Support arm unwraps an empty iterator (panic)
\*   "unimplemented"  the arm for every other order type (panic)
NodeStatus(ords, g, nl, k) ==
  LET order == ords[nl[k][1]]
      index == nl[k][2]
  IN  IF Len(OutgoingEdges(g, index)) # 0 THEN "skip"
      ELSE IF order.order_type = "Support"
           THEN IF Len(IncomingEdges(g, index)) = 0
                THEN "unwrap_none" ELSE "support"
           ELSE "unimplemented"

\* A faulty variant of SupportArm: the commented-out call is made, on the
\* order of the first incoming edge's source.
SupportArmIncreases(ords, g, nl, k) ==
  LET dependent == FirstIncomingSource(g, nl[k][2])
      at == CHOOSE i \in 1..Len(nl) : nl[i][2] = dependent
  IN  [ords EXCEPT ![nl[at][1]] = increase_strength(@)]

\* The orders after the Support arm ran for the k-th entry: the call of
\* increase_strength is commented out, the arm changes no order.
SupportArm(ords, g, nl, k) == ords

\* One pass of the for loop from entry k on.
RECURSIVE Pass(_, _, _, _, _)
Pass(ords, g, nl, k, any) ==
  IF k > Len(nl)
  THEN [panic |-> FALSE, orders |-> ords, any_resolved |-> any]
  ELSE LET s == NodeStatus(ords, g, nl, k)
       IN  CASE s = "skip" -> Pass(ords, g, nl, k + 1, any)
             [] s = "support" -> Pass(SupportArm(ords, g, nl, k), g, nl, k + 1, any)
             [] OTHER -> [panic |-> TRUE, orders |-> ords, any_resolved |-> any]

\* while any_resolved { any_resolved = false; for ... }
RECURSIVE Loop(_, _, _, _)
Loop(ords, g, nl, any) ==
  IF ~any
  THEN [panic |-> FALSE, orders |-> ords, any_resolved |-> any]
  ELSE LET r == Pass(ords, g, nl, 1, FALSE)
       IN  IF r.panic THEN r ELSE Loop(r.orders, g, nl, r.any_resolved)

\* create_order_dependency_graph followed by resolve_all_non_dependant_edges,
\* run on the list ords.
Engine(ords) ==
  LET g == GraphOf(ords)
      nl == NodeListOf(ords)
  IN  Loop(ords, g, nl, TRUE)

---------------------------------------------------------------------------
\* Actions

\* create_order_dependency_graph(orders), then the entry of
\* resolve_all_non_dependant_edges (let mut any_resolved = true).
CreateOrderDependencyGraph ==
  /\ pc = "start"
  /\ order_graph' = GraphOf(orders)
  /\ nodes' = NodeListOf(orders)
  /\ any_resolved' = TRUE
  /\ pc' = "while"
  /\ UNCHANGED <<orders, idx, passes, dependent_node_index, processed, calls>>

\* The test of the while loop: begin a pass or return.
WhileTest ==
  /\ pc = "while"
  /\ IF any_resolved
     THEN /\ any_resolved' = FALSE
          /\ idx' = 1
          /\ passes' = passes + 1
          /\ pc' = "for"
     ELSE /\ pc' = "done"
          /\ UNCHANGED <<any_resolved, idx, passes>>
  /\ UNCHANGED <<orders, order_graph, nodes, dependent_node_index, processed,
                 calls>>

\* The for loop is past the last entry: back to the test of the while loop.
EndPass ==
  /\ pc = "for"
  /\ idx > Len(nodes)
  /\ pc' = "while"
  /\ UNCHANGED <<orders, order_graph, nodes, any_resolved, idx, passes,
                 dependent_node_index, processed, calls>>

\* The node has outgoing edges: the body of the for loop does nothing.
SkipNode ==
  /\ pc = "for"
  /\ idx <= Len(nodes)
  /\ NodeStatus(orders, order_graph, nodes, idx) = "skip"
  /\ idx' = idx + 1
  /\ UNCHANGED <<orders, order_graph, nodes, pc, any_resolved, passes,
                 dependent_node_index, processed, calls>>

\* The Support arm: reads the source of the first incoming edge, and that
\* is all it does.
ResolveSupport ==
  /\ pc = "for"
  /\ idx <= Len(nodes)
  /\ NodeStatus(orders, order_graph, nodes, idx) = "support"
  /\ dependent_node_index' = FirstIncomingSource(order_graph, nodes[idx][2])
  /\ orders' = SupportArm(orders, order_graph, nodes, idx)
  /\ processed' = processed \cup {nodes[idx][2]}
  /\ idx' = idx + 1
  /\ UNCHANGED <<order_graph, nodes, pc, any_resolved, passes, calls>>

\* The Support arm on a node without incoming edges: next() is None and
\* unwrap() panics.
UnwrapNone ==
  /\ pc = "for"
  /\ idx <= Len(nodes)
  /\ NodeStatus(orders, order_graph, nodes, idx) = "unwrap_none"
  /\ pc' = "panic"
  /\ UNCHANGED <<orders, order_graph, nodes, any_resolved, idx, passes,
                 dependent_node_index, processed, calls>>

\* Every other order type with no outgoing edge: unimplemented!() panics.
Unimplemented ==
  /\ pc = "for"
  /\ idx <= Len(nodes)
  /\ NodeStatus(orders, order_graph, nodes, idx) = "unimplemented"
  /\ pc' = "panic"
  /\ UNCHANGED <<orders, order_graph, nodes, any_resolved, idx, passes,
                 dependent_node_index, processed, calls>>

Next ==
  \/ CreateOrderDependencyGraph
  \/ WhileTest
  \/ EndPass
  \/ SkipNode
  \/ ResolveSupport
  \/ UnwrapNone
  \/ Unimplemented

Spec == Init /\ [][Next]_vars

\* The same system under a second name: the comparison of a run with the
\* runs on every permutation of its input is checked apart from the rest.
SpecConfluence == Init /\ [][Next]_vars

\* create_order_dependency_graph alone, applied to every input list.
NextGraph == CreateOrderDependencyGraph

SpecGraph == Init /\ [][NextGraph]_vars

---------------------------------------------------------------------------
\* increase_strength as a caller may use it

\* The orders pass to the graph by shared reference, so a caller can apply
\* increase_strength to one of them only outside the graph's lifetime: here,
\* once resolve_all_non_dependant_edges has returned.
IncreaseStrengthAfter ==
  /\ pc = "done"
  /\ calls < MaxCalls
  /\ \E i \in 1..Len(orders) :
       orders' = [orders EXCEPT ![i] = increase_strength(@)]
  /\ calls' = calls + 1
  /\ UNCHANGED <<order_graph, nodes, pc, any_resolved, idx, passes,
                 dependent_node_index, processed>>

NextFrame == Next \/ IncreaseStrengthAfter

\* Construction, resolution, and calls of increase_strength afterwards.
SpecFrame == Init /\ [][NextFrame]_vars

\* One order on its own.  The struct has no constructor and its fields are
\* plain values, so the flags take both values; the strength starts at the
\* default 1.
AnyOrder(s, r, d) == [s EXCEPT !.resolved = r, !.dislodged = d]

InitOrder ==
  /\ \E l \in Provinces : \E s \in Shapes : \E r \in BOOLEAN : \E d \in BOOLEAN :
       orders = <<AnyOrder(OrderAt(l, s), r, d)>>
  /\ order_graph = [nodes |-> {}, edges |-> <<>>]
  /\ nodes = <<>>
  /\ pc = "order"
  /\ any_resolved = TRUE
  /\ idx = 0
  /\ passes = 0
  /\ dependent_node_index = 0
  /\ processed = {}
  /\ calls = 0

\* self.order_strength += 1 where the addition does not overflow, and in a
\* build without overflow checks, where it wraps.
IncreaseStrength ==
  /\ pc = "order"
  /\ calls < MaxSupports
  /\ orders' = [orders EXCEPT ![1] = increase_strength(@)]
  /\ calls' = calls + 1
  /\ UNCHANGED <<order_graph, nodes, pc, any_resolved, idx, passes,
                 dependent_node_index, processed>>

\* self.order_strength += 1 on 255 in a build with overflow checks: the
\* addition panics and the field is left as it was.
IncreaseStrengthOverflow ==
  /\ pc = "order"
  /\ calls < MaxSupports
  /\ orders[1].order_strength = U8Max
  /\ pc' = "panic"
  /\ calls' = calls + 1
  /\ UNCHANGED <<orders, order_graph, nodes, any_resolved, idx, passes,
                 dependent_node_index, processed>>

NextOrder == IncreaseStrength \/ IncreaseStrengthOverflow

SpecOrder == InitOrder /\ [][NextOrder]_vars

TypeOK ==
  /\ Len(orders) <= MaxOrders
  /\ \A i \in 1..Len(orders) : \A j \in 1..Len(orders) :
       i < j => orders[i].order_of < orders[j].order_of
  /\ pc \in {"start", "while", "for", "done", "panic"}
  /\ any_resolved \in BOOLEAN
  /\ idx \in 0..(Len(orders) + 1)
  /\ processed \subseteq order_graph.nodes

---------------------------------------------------------------------------
\* Properties of the graph create_order_dependency_graph returns

Built == pc # "start"

\* The graph has an edge from the node of the i-th order to the node of the
\* j-th order.
Edge(i, j) == HasEdge(order_graph, nodes[i][2], nodes[j][2])

Positions == 1..Len(orders)

\* C1: the built graph has no edge from an order to itself, whatever the
\* kind of the order.
C1_NoSelfEdge ==
  Built => \A i \in Positions : ~Edge(i, i)

\* C2: for a Move X from A to B and another order Y, the graph has the edge
\* X->Y exactly when Y supports the move A->B, or Y stands at B, or Y is a
\* Move into B, or Y is a Move from B to A, or Y convoys A->B.
C2_MoveEdges ==
  Built =>
    \A i \in Positions : \A j \in Positions \ {i} :
      LET X == orders[i]
          Y == orders[j]
          A == X.order_from
          B == X.order_to
      IN  X.order_type = "Move" =>
            (Edge(i, j) <=>
               \/ Y.order_type = "Support" /\ Y.order_from = A /\ Y.order_to = B
               \/ Y.order_of = B
               \/ Y.order_type = "Move" /\ Y.order_to = B
               \/ Y.order_type = "Move" /\ Y.order_from = B /\ Y.order_to = A
               \/ Y.order_type = "Convoy" /\ Y.order_from = A /\ Y.order_to = B)

\* C3: for a Hold, Support or Convoy X at L and another order Y, the graph
\* has the edge X->Y exactly when Y is a Move into L or a Support whose
\* source and target are both L.
C3_HoldEdges ==
  Built =>
    \A i \in Positions : \A j \in Positions \ {i} :
      LET X == orders[i]
          Y == orders[j]
          L == X.order_of
      IN  X.order_type \in {"Hold", "Support", "Convoy"} =>
            (Edge(i, j) <=>
               \/ Y.order_type = "Move" /\ Y.order_to = L
               \/ Y.order_type = "Support" /\ Y.order_from = L /\ Y.order_to = L)

\* A Support at L that another order moves into and a third supports to
\* hold: it has both edges, and none to itself.
C3_Witness ==
  /\ Built
  /\ \E i \in Positions : \E j \in Positions \ {i} : \E k \in Positions \ {i, j} :
       /\ orders[i].order_type = "Support"
       /\ orders[j].order_type = "Move" /\ orders[j].order_to = orders[i].order_of
       /\ orders[k].order_type = "Support"
       /\ orders[k].order_from = orders[i].order_of
       /\ orders[k].order_to = orders[i].order_of
       /\ Edge(i, j) /\ Edge(i, k) /\ ~Edge(i, i)

\* C4: the edges that leave an IllegalOrder at L all lead to Moves into L;
\* an order that supports L to hold gets no edge from it.
C4_IllegalEdges ==
  Built =>
    \A i \in Positions : \A j \in Positions :
      LET X == orders[i]
          Y == orders[j]
          L == X.order_of
      IN  X.order_type = "IllegalOrder" =>
            /\ Edge(i, j) => (Y.order_type = "Move" /\ Y.order_to = L)
            /\ (Y.order_type = "Support" /\ Y.order_from = L /\ Y.order_to = L)
                 => ~Edge(i, j)

\* An IllegalOrder at L that one order moves into and another supports to
\* hold: the edge to the Move is there, the edge to the Support is not.
C4_Witness ==
  /\ Built
  /\ \E i \in Positions : \E j \in Positions \ {i} : \E k \in Positions \ {i, j} :
       /\ orders[i].order_type = "IllegalOrder"
       /\ orders[j].order_type = "Move" /\ orders[j].order_to = orders[i].order_of
       /\ orders[k].order_type = "Support"
       /\ orders[k].order_from = orders[i].order_of
       /\ orders[k].order_to = orders[i].order_of
       /\ Edge(i, j) /\ ~Edge(i, k)

---------------------------------------------------------------------------
\* Properties of resolve_all_non_dependant_edges

Returned == pc = "done"
Ended == pc \in {"done", "panic"}

\* The nodes still in the graph that have no outgoing edge.
ZeroOutDegree ==
  {n \in order_graph.nodes : Len(OutgoingEdges(order_graph, n)) = 0}

\* C5: resolution never aborts, the number of passes is bounded by the
\* number of orders (plus the last pass, which removes nothing), and every
\* pass that another pass follows removed a node.
C5_TerminatesNormally ==
  /\ pc # "panic"
  /\ passes <= Len(orders) + 1
  /\ Built => passes - 1 <= Len(nodes) - Cardinality(order_graph.nodes)

\* C6: when resolution returns, no node without outgoing edges is left in
\* the graph, and every Support it resolved is gone from the graph with all
\* of its edges.
C6_Fixpoint ==
  Returned =>
    /\ ZeroOutDegree = {}
    /\ processed \cap order_graph.nodes = {}
    /\ \A k \in 1..Len(order_graph.edges) :
         /\ order_graph.edges[k][1] \notin processed
         /\ order_graph.edges[k][2] \notin processed

\* The Support at position s is a support for the order at position i: to
\* hold where it stands, or for the move it makes.
SupportFor(s, i) ==
  /\ orders[s].order_type = "Support"
  /\ \/ /\ orders[s].order_from = orders[i].order_of
        /\ orders[s].order_to = orders[i].order_of
     \/ /\ orders[i].order_type = "Move"
        /\ orders[s].order_from = orders[i].order_from
        /\ orders[s].order_to = orders[i].order_to

\* C7: after resolution the strength of every order is 1 plus the number
\* of resolved Support orders that support it.
C7_Strength ==
  Returned =>
    \A i \in Positions :
      orders[i].order_strength =
        1 + Cardinality({s \in Positions : nodes[s][2] \in processed /\ SupportFor(s, i)})

\* The orders {Par: Hold, Bur: Move->Par, Mar: Support Bur->Par}, with Par,
\* Bur, Mar the provinces 1, 2, 3.
C8_Scenario ==
  /\ Len(orders) = 3
  /\ orders[1].order_type = "Hold" /\ orders[1].order_of = 1
  /\ orders[2].order_type = "Move" /\ orders[2].order_of = 2
  /\ orders[2].order_to = 1
  /\ orders[3].order_type = "Support" /\ orders[3].order_of = 3
  /\ orders[3].order_from = 2 /\ orders[3].order_to = 1

\* C8: a Move wins against weaker contestants; in the scenario the
\* supported Move of Bur ends with strength 2 and the unit in Par dislodged.
C8_SupportedMoveDislodges ==
  (Ended /\ C8_Scenario) =>
    /\ pc = "done"
    /\ orders[2].order_strength = 2
    /\ orders[1].dislodged

\* C9: a run in which a Support node with no or with several incoming
\* edges was resolved ends in a fatal failure: when resolution returns,
\* every Support it resolved had exactly one incoming edge.
C9_FatalUnlessOneIncoming ==
  Returned =>
    \A n \in processed : Len(IncomingEdges(order_graph, n)) = 1

\* The input list, as it was before resolution.
InputOrders ==
  [i \in Positions |->
     Order(orders[i].original_order_type, orders[i].order_of,
           orders[i].order_from, orders[i].order_to)]

\* The list ords, reordered by the permutation p of its positions.
Permuted(ords, p) == [i \in 1..Len(ords) |-> ords[p[i]]]

\* C10: the outcome of a run (each order's classification and strength,
\* and whether adjudication fails) is the outcome of the run on every
\* permutation of the input list: that run fails exactly when this one
\* does, and leaves every order with the same final record.
C10_Confluent ==
  Ended =>
    LET input == InputOrders
    IN  \A p \in Permutations(Positions) :
          LET r == Engine(Permuted(input, p))
          IN  /\ r.panic = (pc = "panic")
              /\ \A i \in Positions : r.orders[i] = orders[p[i]]

\* A run that returned after it resolved two Support orders in one pass.
C10_Witness ==
  /\ Returned
  /\ Cardinality(processed) >= 2


---------------------------------------------------------------------------
\* Outcomes of resolution

\* The order at position i is a Hold, a Move or a Convoy whose node is in
\* the graph and has no outgoing edge.
ReadyPlainOrder(i) ==
  /\ orders[i].order_type \in {"Hold", "Move", "Convoy"}
  /\ nodes[i][2] \in ZeroOutDegree

\* C11: a Hold, Move or Convoy with no outgoing edge is resolved and leaves
\* the graph: resolution never aborts on reaching it, never returns with it
\* still in the graph, and an order of these kinds that has left the graph
\* is resolved.
C11_PlainOrderResolved ==
  Built =>
    \A i \in Positions :
      /\ ReadyPlainOrder(i) => ~(pc = "panic" /\ idx = i) /\ pc # "done"
      /\ (orders[i].order_type \in {"Hold", "Move", "Convoy"}
            /\ nodes[i][2] \notin order_graph.nodes) => orders[i].resolved

\* The orders at positions i and j are Moves into each other's province.
HeadToHead(i, j) ==
  /\ i # j
  /\ orders[i].order_type = "Move" /\ orders[j].order_type = "Move"
  /\ orders[i].order_from = orders[j].order_to
  /\ orders[i].order_to = orders[j].order_from

NoConvoy == \A k \in Positions : orders[k].order_type # "Convoy"

\* C12: with no convoy among the orders, when adjudication returns, two
\* Moves into each other's province are both resolved and neither unit is
\* dislodged.
C12_HeadToHeadBounce ==
  \A i \in Positions : \A j \in Positions :
    (Returned /\ NoConvoy /\ HeadToHead(i, j)) =>
      /\ orders[i].resolved /\ orders[j].resolved
      /\ ~orders[i].dislodged /\ ~orders[j].dislodged

\* C13: when adjudication returns, the graph is empty and every order is
\* resolved; it does not return on a graph that still has nodes.
C13_EndsResolved ==
  Returned =>
    /\ order_graph.nodes = {}
    /\ \A i \in Positions : orders[i].resolved

\* The Support at position s supports the move of the Move at position i.
MoveSupport(s, i) ==
  /\ orders[i].order_type = "Move"
  /\ is_support_moving(orders[s], orders[i].order_from, orders[i].order_to)

\* The order at position s is still to be resolved: its node is in the
\* graph, the engine has not taken it through an arm, and it is not marked
\* resolved.
Pending(s) ==
  /\ nodes[s][2] \in order_graph.nodes
  /\ nodes[s][2] \notin processed
  /\ ~orders[s].resolved

---------------------------------------------------------------------------
\* Properties of one order under increase_strength

\* C15: once an order is resolved, no operation changes its kind or its
\* strength or takes resolved back to false, and dislodged is set only on
\* an order that is resolved.
C15_ResolvedIsFrozen ==
  [][\A i \in 1..Len(orders) :
       /\ orders[i].resolved =>
            /\ orders'[i].resolved
            /\ orders'[i].order_type = orders[i].order_type
            /\ orders'[i].order_strength = orders[i].order_strength
       /\ (~orders[i].dislodged /\ orders'[i].dislodged) => orders[i].resolved
    ]_vars

\* C18: through any number of calls of increase_strength up to the largest
\* number of supports an order can have, the strength stays at least 1 and
\* never gets smaller, and no call overflows the 8-bit field.
C18_StrengthNeverWraps ==
  [][calls < MaxSupports =>
       /\ pc' # "panic"
       /\ \A i \in 1..Len(orders) :
            /\ orders'[i].order_strength >= 1
            /\ orders'[i].order_strength >= orders[i].order_strength
    ]_vars

---------------------------------------------------------------------------
\* The node list, and what the operations leave alone

\* What an order is: its kind, its unit's location, its source and target.
Identity(o) ==
  <<o.original_order_type, o.order_type, o.order_of, o.order_from, o.order_to>>

\* The node list names every order once, in input order, each with a node
\* index of its own, and the graph has these nodes and no other.
OneNodePerOrder ==
  /\ Len(nodes) = Len(orders)
  /\ \A i \in Positions : nodes[i][1] = i
  /\ \A i \in Positions : \A j \in Positions :
       i # j => nodes[i][2] # nodes[j][2]
  /\ order_graph.nodes = {nodes[i][2] : i \in Positions}

\* No order is added or dropped, and none changes its kind, location,
\* source or target.
IdentityKept ==
  /\ Len(orders') = Len(orders)
  /\ \A i \in Positions : Identity(orders'[i]) = Identity(orders[i])

---------------------------------------------------------------------------
\* Cycles and multiplicity of edges in the built graph

\* The Move at position i moves into the province of the unit whose order,
\* at position j, is a Hold, a Support or a Convoy.
MovesOnto(i, j) ==
  /\ orders[i].order_type = "Move"
  /\ orders[j].order_type \in {"Hold", "Support", "Convoy"}
  /\ orders[j].order_of = orders[i].order_to

\* C17: the built graph keeps cycles: two Moves into each other's province
\* have an edge each way, and so have a Move and the Hold, Support or Convoy
\* order of the unit in the province it moves into.
C17_CyclesKept ==
  Built =>
    \A i \in Positions : \A j \in Positions :
      (HeadToHead(i, j) \/ MovesOnto(i, j)) => Edge(i, j) /\ Edge(j, i)

\* A built graph with a Move into the province of a unit that supports
\* something elsewhere: the two orders have an edge each way.
C17_Witness ==
  /\ Built
  /\ \E i \in Positions : \E j \in Positions :
       /\ MovesOnto(i, j) /\ orders[j].order_type = "Support"
       /\ orders[j].order_to # orders[i].order_to
       /\ Edge(i, j) /\ Edge(j, i)

\* The number of edges from the node of the i-th order to the node of the
\* j-th order.
EdgeCount(i, j) ==
  Cardinality({k \in 1..Len(order_graph.edges) :
                 order_graph.edges[k] = <<nodes[i][2], nodes[j][2]>>})

\* C19: the built graph has at most one edge for each ordered pair of
\* orders, and exactly one where a dependency rule holds, however many
\* rules hold for the pair.
C19_OneEdgePerPair ==
  Built =>
    \A i \in Positions : \A j \in Positions :
      /\ EdgeCount(i, j) <= 1
      /\ DependsOn(orders[i], orders[j]) => EdgeCount(i, j) = 1

\* A built graph with two Moves into each other's province: for the pair,
\* the occupant rule and the opposite-move rule both hold, and there is one
\* edge.
C19_Witness ==
  /\ Built
  /\ \E i \in Positions : \E j \in Positions :
       /\ HeadToHead(i, j)
       /\ orders[j].order_of = orders[i].order_to
       /\ EdgeCount(i, j) = 1

=============================================================================
